---- MODULE Spec2Model ----
(***************************************************************************)
(* Model of the CollectionUtils functions of src/value-utils.ts.  The      *)
(* functions are pure: the state of a run is the argument list of a call   *)
(* (input), the value each function returned or the error it raised        *)
(* (output) and the mutable containers the arguments refer to (store).     *)
(* Init draws the arguments from bounded sets, one action per exported     *)
(* function applies it.                                                    *)
(***************************************************************************)
EXTENDS Integers, Sequences, FiniteSets, TLC

VARIABLES input, output, store

vars == <<input, output, store>>

(***************************************************************************)
(* Bounds of the model.                                                    *)
(***************************************************************************)
MaxLen == 2
MaxVal == 1

(***************************************************************************)
(* JavaScript values.  Every value is a record [t, v]: t is the kind, v    *)
(* the payload.  Arrays and immutable Lists carry a sequence, plain        *)
(* objects a sequence of <<key, value>> entries in Object.keys order.      *)
(***************************************************************************)
Undefined == [t |-> "undefined", v |-> 0]
Null == [t |-> "null", v |-> 0]
NaN == [t |-> "NaN", v |-> 0]
Num(n) == [t |-> "number", v |-> n]
Bool(b) == [t |-> "boolean", v |-> b]
Str(s) == [t |-> "string", v |-> s]
Arr(s) == [t |-> "Array", v |-> s]
Lst(s) == [t |-> "List", v |-> s]
Obj(entries) == [t |-> "Object", v |-> entries]
Fn(name) == [t |-> "function", v |-> name]
\* the number n + 0.5
Frac(n) == [t |-> "fraction", v |-> n]
Throw(e) == [t |-> "throw", v |-> e]
NotCalled == [t |-> "pending", v |-> 0]

Returned(r) == r.t \notin {"pending", "throw"}

\* the arguments of the exported functions, none supplied
NoInput ==
    [collectionA |-> Undefined, collectionB |-> Undefined, comparator |-> Undefined,
     collections |-> <<>>, collection |-> Undefined, type |-> Undefined,
     enumType |-> Undefined, defaultValue |-> Undefined,
     objectA |-> Undefined, objectB |-> Undefined, heap |-> <<>>,
     array |-> Undefined,
     now |-> 0, date |-> 0,
     from |-> Undefined, to |-> Undefined,
     timestamp |-> Undefined, format |-> Undefined,
     showRelativeDates |-> Undefined, timezone |-> Undefined,
     value |-> Undefined, parses |-> <<>>,
     against |-> Undefined, check |-> Undefined, strict |-> Undefined,
     n |-> 0, x |-> 0, values |-> <<>>, days |-> 0]

\* the results of the exported functions, none called
NoOutput ==
    [differenceOf |-> NotCalled, intersectionOf |-> NotCalled,
     isEmpty |-> NotCalled, hasValues |-> NotCalled,
     isComprisedOf |-> NotCalled, getDefaultMap |-> NotCalled,
     flatten |-> NotCalled, hashFromNumberArray |-> NotCalled,
     isEqual |-> NotCalled,
     dateDiffNowFriendly |-> NotCalled,
     copyDate |-> NotCalled, copyTime |-> NotCalled,
     getMergedDateTime |-> NotCalled,
     formatDate |-> NotCalled,
     parseDate |-> NotCalled, parsed |-> <<>>,
     arrayIncludes |-> NotCalled,
     closestMultiple |-> NotCalled,
     coalesce |-> NotCalled,
     subtractWeekdays |-> NotCalled]

SeqsUpTo(S, n) == UNION {[1..k -> S] : k \in 0..n}
Range(s) == {s[i] : i \in 1..Len(s)}
Count(s, x) == Cardinality({i \in 1..Len(s) : s[i] = x})

\* value == null
isNullOrUndefined(value) == value.t \in {"null", "undefined"}

\* value != null
isNotNullOrUndefined(value) == ~isNullOrUndefined(value)

\* a === b on primitives and references
StrictEquals(a, b) == a.t # "NaN" /\ a = b

(***************************************************************************)
(* differenceOf / intersectionOf                                           *)
(***************************************************************************)
Elems == {Num(n) : n \in 0..MaxVal} \cup {NaN}

Collections ==
    {Null, Undefined}
        \cup {Arr(s) : s \in SeqsUpTo(Elems, MaxLen)}
        \cup {Lst(s) : s \in SeqsUpTo(Elems, MaxLen)}

\* callers' comparators: a % 2 === b % 2 and a < b
Comparators == {Undefined, Null, Fn("sameParity"), Fn("lessThan")}

\* comparator(elementOfA, elementOfB) for a caller's comparator
Call(comparator, a, b) ==
    CASE comparator.v = "sameParity" ->
            a.t = "number" /\ b.t = "number" /\ a.v % 2 = b.v % 2
      [] comparator.v = "lessThan" ->
            a.t = "number" /\ b.t = "number" /\ a.v < b.v
      [] OTHER -> FALSE

\* Immutable's List(value): null and undefined give the empty List
ListOf(collection) ==
    IF isNullOrUndefined(collection) THEN <<>> ELSE collection.v

\* the comparator in force after the default has been filled in
Compare(comparator, a, b) ==
    IF isNullOrUndefined(comparator)
    THEN StrictEquals(a, b)
    ELSE Call(comparator, a, b)

differenceOf_swapped(collectionA, collectionB, comparator) ==
    LET listA == ListOf(collectionA)
        listB == ListOf(collectionB)
    IN  Lst(SelectSeq(listA,
            LAMBDA elementA :   \* listB.some(...)
                ~\E j \in 1..Len(listB) : Compare(comparator, listB[j], elementA)))

differenceOf(collectionA, collectionB, comparator) ==
    LET listA == ListOf(collectionA)
        listB == ListOf(collectionB)
    IN  Lst(SelectSeq(listA,
            LAMBDA elementA :   \* listB.some(...)
                ~\E j \in 1..Len(listB) : Compare(comparator, elementA, listB[j])))

intersectionOf_every(collectionA, collectionB, comparator) ==
    LET listA == ListOf(collectionA)
        listB == ListOf(collectionB)
    IN  Lst(SelectSeq(listA,
            LAMBDA elementA :   \* listB.some(...)
                \A j \in 1..Len(listB) : Compare(comparator, elementA, listB[j])))

intersectionOf(collectionA, collectionB, comparator) ==
    LET listA == ListOf(collectionA)
        listB == ListOf(collectionB)
    IN  Lst(SelectSeq(listA,
            LAMBDA elementA :   \* listB.some(...)
                \E j \in 1..Len(listB) : Compare(comparator, elementA, listB[j])))

InitSetOps ==
    /\ input \in {[NoInput EXCEPT !.collectionA = a, !.collectionB = b, !.comparator = c] :
                    <<a, b, c>> \in Collections \X Collections \X Comparators}
    /\ output = NoOutput
    /\ store = <<>>

CallDifferenceOf ==
    /\ output.differenceOf = NotCalled
    /\ output' = [output EXCEPT !.differenceOf =
                    differenceOf(input.collectionA, input.collectionB, input.comparator)]
    /\ UNCHANGED <<input, store>>

CallIntersectionOf ==
    /\ output.intersectionOf = NotCalled
    /\ output' = [output EXCEPT !.intersectionOf =
                    intersectionOf(input.collectionA, input.collectionB, input.comparator)]
    /\ UNCHANGED <<input, store>>

NextSetOps == CallDifferenceOf \/ CallIntersectionOf

SpecSetOps == InitSetOps /\ [][NextSetOps]_vars

\* indices of A whose element has a match in B under the comparator in force
MatchedIn(A, B, comparator) ==
    {i \in 1..Len(A) : \E j \in 1..Len(B) : Compare(comparator, A[i], B[j])}

\* r lists the elements of A at the indices keep, in increasing index order
IsSubSeqAt(r, A, keep) ==
    /\ Len(r) = Cardinality(keep)
    /\ \A i \in keep : r[Cardinality({j \in keep : j <= i})] = A[i]

\* C1: differenceOf(A, B, comparator) is exactly the elements of A that no
\* element of B matches under the comparator, in A's order, duplicates kept.
C1_DifferenceOf ==
    Returned(output.differenceOf) =>
        LET A == ListOf(input.collectionA)
            B == ListOf(input.collectionB)
        IN  /\ output.differenceOf.t = "List"
            /\ IsSubSeqAt(output.differenceOf.v, A,
                          (1..Len(A)) \ MatchedIn(A, B, input.comparator))

C1_Witness ==
    /\ Returned(output.differenceOf)
    /\ input.comparator = Fn("lessThan")
    /\ input.collectionA = Arr(<<Num(1), Num(0)>>)
    /\ input.collectionB = Lst(<<Num(1)>>)
    /\ output.differenceOf = Lst(<<Num(1)>>)

\* C2: intersectionOf(A, B, comparator) is exactly the elements of A that
\* at least one element of B matches, in A's order, duplicates kept.
C2_IntersectionOf ==
    Returned(output.intersectionOf) =>
        LET A == ListOf(input.collectionA)
            B == ListOf(input.collectionB)
        IN  /\ output.intersectionOf.t = "List"
            /\ IsSubSeqAt(output.intersectionOf.v, A,
                          MatchedIn(A, B, input.comparator))

C2_Witness ==
    /\ Returned(output.intersectionOf)
    /\ isNullOrUndefined(input.comparator)
    /\ input.collectionA = Arr(<<Num(1), Num(1)>>)
    /\ input.collectionB = Arr(<<Num(0), Num(1)>>)
    /\ output.intersectionOf = Lst(<<Num(1), Num(1)>>)

\* C3: under one comparator differenceOf(A, B) and intersectionOf(A, B)
\* partition A: the lengths sum to the length of A, no value is in both
\* results, and each value occurs in the two results together as often as
\* it occurs in A.
C3_Partition ==
    (Returned(output.differenceOf) /\ Returned(output.intersectionOf)) =>
        LET A == ListOf(input.collectionA)
            d == output.differenceOf.v
            i == output.intersectionOf.v
        IN  /\ Len(d) + Len(i) = Len(A)
            /\ Range(d) \cap Range(i) = {}
            /\ Range(d) \cup Range(i) = Range(A)
            /\ \A x \in Range(A) : Count(d, x) + Count(i, x) = Count(A, x)

C3_Witness ==
    /\ Returned(output.differenceOf)
    /\ Returned(output.intersectionOf)
    /\ input.comparator = Fn("sameParity")
    /\ input.collectionA = Lst(<<Num(0), Num(1)>>)
    /\ input.collectionB = Arr(<<Num(1), NaN>>)
    /\ output.differenceOf = Lst(<<Num(0)>>)
    /\ output.intersectionOf = Lst(<<Num(1)>>)

(***************************************************************************)
(* isEmpty / hasValues                                                     *)
(***************************************************************************)
MaxArgs == 2

Keys == <<"a", "b">>

\* the entries of an object whose keys, in Object.keys order, are ks
EntriesOver(ks, Vals) ==
    {[i \in 1..Len(ks) |-> <<ks[i], f[i]>>] : f \in [1..Len(ks) -> Vals]}

\* key lists without repetition over Keys, in every insertion order
KeyLists == {ks \in SeqsUpTo(Range(Keys), Len(Keys)) :
                \A i, j \in 1..Len(ks) : i # j => ks[i] # ks[j]}

\* key lists in the order of Keys only
SortedKeyLists == {ks \in KeyLists :
                     \A i, j \in 1..Len(ks) :
                        i < j => \E m, n \in 1..Len(Keys) :
                                    m < n /\ Keys[m] = ks[i] /\ Keys[n] = ks[j]}

EmptyElems == {Num(0), Null}

HashVals == {Arr(<<>>), Num(0), Undefined}

Hashes == UNION {{Obj(e) : e \in EntriesOver(ks, HashVals)} : ks \in SortedKeyLists}

EmptyArgs ==
    {Null, Undefined}
        \cup {Arr(s) : s \in SeqsUpTo(EmptyElems, MaxLen)}
        \cup {Lst(s) : s \in SeqsUpTo(EmptyElems, MaxLen)}
        \cup Hashes

\* Object.keys(object)
ObjectKeys(object) == Arr([i \in 1..Len(object.v) |-> Str(object.v[i][1])])

\* the hash branch looks at the values instead of the keys
isEmpty_values(collections) ==
    \A k \in 1..Len(collections) :
        LET collection == collections[k]
        IN  CASE isNullOrUndefined(collection) -> TRUE
              [] collection.t = "List" -> Len(collection.v) = 0
              [] collection.t = "Array" -> Len(collection.v) = 0
              [] OTHER -> \A i \in 1..Len(collection.v) :
                            LET value == collection.v[i][2]
                            IN  \/ isNullOrUndefined(value)
                                \/ value.t \in {"Array", "List"} /\ Len(value.v) = 0

\* collections is the rest-parameter array, which is never null
RECURSIVE isEmpty(_)
isEmpty(collections) ==
    \A k \in 1..Len(collections) :
        LET collection == collections[k]
        IN  CASE isNullOrUndefined(collection) -> TRUE
              [] collection.t = "List" -> Len(collection.v) = 0
              [] collection.t = "Array" -> Len(collection.v) = 0
              [] OTHER -> isEmpty(<<ObjectKeys(collection)>>)

hasValues_every(collections) ==
    \A k \in 1..Len(collections) : ~isEmpty(<<collections[k]>>)

hasValues(collections) ==
    \E k \in 1..Len(collections) : ~isEmpty(<<collections[k]>>)

InitEmpty ==
    /\ input \in {[NoInput EXCEPT !.collections = cs] : cs \in SeqsUpTo(EmptyArgs, MaxArgs)}
    /\ output = NoOutput
    /\ store = <<>>

CallIsEmpty ==
    /\ output.isEmpty = NotCalled
    /\ output' = [output EXCEPT !.isEmpty = Bool(isEmpty(input.collections))]
    /\ UNCHANGED <<input, store>>

CallHasValues ==
    /\ output.hasValues = NotCalled
    /\ output' = [output EXCEPT !.hasValues = Bool(hasValues(input.collections))]
    /\ UNCHANGED <<input, store>>

NextEmpty == CallIsEmpty \/ CallHasValues

SpecEmpty == InitEmpty /\ [][NextEmpty]_vars

\* C4: for every argument list isEmpty(args) is the negation of
\* hasValues(args).
C4_Complement ==
    (Returned(output.isEmpty) /\ Returned(output.hasValues)) =>
        /\ output.isEmpty.t = "boolean"
        /\ output.hasValues.t = "boolean"
        /\ output.isEmpty.v = ~output.hasValues.v

C4_Witness ==
    /\ input.collections = <<Null, Obj(<<<<"a", Arr(<<>>)>>>>)>>
    /\ output.isEmpty = Bool(FALSE)
    /\ output.hasValues = Bool(TRUE)

\* the argument is null, undefined, a sequence without elements or a
\* mapping without keys
StructurallyEmpty(c) ==
    \/ c = Null
    \/ c = Undefined
    \/ c.t \in {"Array", "List"} /\ c.v = <<>>
    \/ c.t = "Object" /\ {e[1] : e \in Range(c.v)} = {}

\* C5: isEmpty(c1, ..., cn) is true iff every argument is null, undefined,
\* a sequence with zero elements or a mapping with zero keys; a mapping
\* with a key is non-empty whatever its values; isEmpty() is true.
C5_IsEmpty ==
    Returned(output.isEmpty) =>
        output.isEmpty =
            Bool(\A k \in 1..Len(input.collections) :
                    StructurallyEmpty(input.collections[k]))

C5_Witness ==
    /\ input.collections = <<Lst(<<>>), Obj(<<<<"a", Arr(<<>>)>>, <<"b", Arr(<<>>)>>>>)>>
    /\ output.isEmpty = Bool(FALSE)


(***************************************************************************)
(* isComprisedOf                                                           *)
(***************************************************************************)
\* an object created by `new name(...)`
Instance(name) == [t |-> "instance", v |-> name]

\* the classes of the callers: Derived extends Base, Other stands alone
Classes == {"Base", "Derived", "Other"}

SuperClass(name) == IF name = "Derived" THEN "Base" ELSE "Object"

\* the constructors on the prototype chain of an instance of name
RECURSIVE ProtoChain(_)
ProtoChain(name) ==
    IF name = "Object" THEN {"Object"} ELSE {name} \cup ProtoChain(SuperClass(name))

\* typeof o
TypeOf(o) ==
    CASE o.t \in {"number", "NaN"} -> "number"
      [] o.t = "string" -> "string"
      [] o.t = "boolean" -> "boolean"
      [] o.t = "undefined" -> "undefined"
      [] o.t = "function" -> "function"
      [] o.t = "fraction" -> "number"
      [] OTHER -> "object"

\* o instanceof constructor
InstanceOf(o, constructor) ==
    o.t = "instance" /\ constructor.v \in ProtoChain(o.v)

TypedElems ==
    {Num(0), NaN, Str("s"), Bool(TRUE), Null, Undefined}
        \cup {Instance(c) : c \in Classes}

TypedCollections ==
    {Null, Undefined}
        \cup {Arr(s) : s \in SeqsUpTo(TypedElems, MaxLen)}
        \cup {Lst(s) : s \in SeqsUpTo(TypedElems, MaxLen)}

TypeTags ==
    {Str("string"), Str("number"), Str("boolean")} \cup {Fn(c) : c \in Classes}

typeGuard(o, className) ==
    IF TypeOf(className) = "string"
    THEN TypeOf(o) = className.v
    ELSE InstanceOf(o, className)

\* the guard of the last element visited decides
isComprisedOf_last(collection, type) ==
    IF isEmpty(<<collection>>)
    THEN TRUE
    ELSE IF collection.t \in {"List", "Array"}
         THEN typeGuard(collection.v[Len(collection.v)], type)
         ELSE TRUE

isComprisedOf(collection, type) ==
    IF isEmpty(<<collection>>)
    THEN TRUE
    ELSE LET elements == collection.v
             \* isInstanceOf after the forEach callback has run on elements 1..i
             isInstanceOf[i \in 0..Len(elements)] ==
                 IF i = 0 THEN TRUE
                 ELSE IF ~typeGuard(elements[i], type) THEN FALSE
                 ELSE isInstanceOf[i - 1]
         IN  CASE collection.t = "List" -> isInstanceOf[Len(elements)]
               [] collection.t = "Array" -> isInstanceOf[Len(elements)]
               [] OTHER -> TRUE

InitComprised ==
    /\ input \in {[NoInput EXCEPT !.collection = c, !.type = t] :
                    <<c, t>> \in TypedCollections \X TypeTags}
    /\ output = NoOutput
    /\ store = <<>>

CallIsComprisedOf ==
    /\ output.isComprisedOf = NotCalled
    /\ output' = [output EXCEPT !.isComprisedOf =
                    Bool(isComprisedOf(input.collection, input.type))]
    /\ UNCHANGED <<input, store>>

NextComprised == CallIsComprisedOf

SpecComprised == InitComprised /\ [][NextComprised]_vars

\* the element satisfies the type tag
Satisfies(e, tag) ==
    \/ /\ tag \in {Str("string"), Str("number"), Str("boolean")}
       /\ TypeOf(e) = tag.v
    \/ /\ tag.t = "function"
       /\ InstanceOf(e, tag)

\* C10: isComprisedOf(collection, type) on an array or a List is true iff
\* every element satisfies the type tag; it is true for an empty, null or
\* undefined collection, and a mismatch gives false, never an error.
C10_IsComprisedOf ==
    output.isComprisedOf # NotCalled =>
        output.isComprisedOf =
            Bool(\/ isNullOrUndefined(input.collection)
                 \/ \A i \in 1..Len(input.collection.v) :
                        Satisfies(input.collection.v[i], input.type))

C10_Witness ==
    /\ input.collection = Lst(<<Str("s"), Instance("Derived")>>)
    /\ input.type = Fn("Base")
    /\ output.isComprisedOf = Bool(FALSE)

(***************************************************************************)
(* getDefaultMap                                                           *)
(***************************************************************************)
\* an Immutable Map: its entries <<key, value>> in insertion order
MapOf(entries) == [t |-> "Map", v |-> entries]

Digits == <<"0", "1", "2", "3", "4", "5", "6", "7", "8", "9">>

\* String(n) for a whole number n >= 0
RECURSIVE NumToStr(_)
NumToStr(n) ==
    IF n < 10 THEN Digits[n + 1] ELSE NumToStr(n \div 10) \o Digits[(n % 10) + 1]

\* the strings Number(s) reads as a whole number
IsNumericString(s) == \E n \in 0..99 : NumToStr(n) = s

\* Number(value)
ToNumber(value) ==
    CASE value.t = "number" -> value
      [] value.t = "string" /\ IsNumericString(value.v) ->
            Num(CHOOSE n \in 0..99 : NumToStr(n) = value.v)
      [] value.t = "string" /\ value.v = "" -> Num(0)
      [] value.t = "null" -> Num(0)
      [] value.t = "boolean" -> Num(IF value.v THEN 1 ELSE 0)
      [] OTHER -> NaN

\* isNaN(value)
isNaN(value) == ToNumber(value) = NaN

\* the property key a value is converted to in object[value]
ToPropertyKey(value) ==
    CASE value.t = "string" -> value.v
      [] value.t = "number" -> NumToStr(value.v)
      [] value.t = "boolean" -> IF value.v THEN "true" ELSE "false"
      [] value.t = "NaN" -> "NaN"
      [] value.t = "null" -> "null"
      [] OTHER -> "undefined"

\* object[key]
Get(object, key) ==
    IF \E i \in 1..Len(object.v) : object.v[i][1] = key
    THEN object.v[CHOOSE i \in 1..Len(object.v) : object.v[i][1] = key][2]
    ELSE Undefined

\* map.set(key, value) on the entries of an Immutable Map
MapSet(entries, key, value) ==
    IF \E i \in 1..Len(entries) : entries[i][1] = key
    THEN [i \in 1..Len(entries) |->
            IF entries[i][1] = key THEN <<key, value>> ELSE entries[i]]
    ELSE Append(entries, <<key, value>>)

\* the members of a set of whole numbers in ascending order
RECURSIVE Ascending(_)
Ascending(S) ==
    IF S = {} THEN <<>>
    ELSE LET least == CHOOSE n \in S : \A m \in S : n <= m
         IN  <<least>> \o Ascending(S \ {least})

EnumNames == <<"A", "B">>

EnumStrings == {"a", "b", "A", "B"}

\* enum E { A = values[1], B = values[2] } as a plain object of name: value
EnumForward(values) == [i \in 1..Len(values) |-> <<EnumNames[i], values[i]>>]

\* the reverse-lookup entries E[value] = name the compiler adds for numeric
\* members; Object.keys lists them first, in ascending numeric order
EnumReverse(values) ==
    LET nums == Ascending({values[i].v : i \in 1..Len(values)})
        lastWith(n) == CHOOSE i \in 1..Len(values) :
                          /\ values[i].v = n
                          /\ \A j \in 1..Len(values) : values[j].v = n => j <= i
    IN  [k \in 1..Len(nums) |-> <<NumToStr(nums[k]), Str(EnumNames[lastWith(nums[k])])>>]

NumericEnums ==
    {Obj(EnumForward(vs)) : vs \in SeqsUpTo({Num(n) : n \in 0..MaxVal}, Len(EnumNames))}

ReverseEnums ==
    {Obj(EnumReverse(vs) \o EnumForward(vs)) :
        vs \in SeqsUpTo({Num(n) : n \in 0..MaxVal}, Len(EnumNames))}

StringEnums ==
    {Obj(EnumForward(vs)) : vs \in SeqsUpTo({Str(x) : x \in EnumStrings}, Len(EnumNames))}

EnumTypes == NumericEnums \cup ReverseEnums \cup StringEnums

DefaultValues == {Undefined, Bool(TRUE), Bool(FALSE)}

getDefaultMap(enumType, defaultValue) ==
    IF isNullOrUndefined(enumType)
    THEN Throw("TypeError")     \* Object.keys(null)
    ELSE LET default == IF defaultValue = Undefined THEN Bool(FALSE) ELSE defaultValue
             keys == ObjectKeys(enumType).v
             \* defaultMap after the forEach callback has run on keys 1..i
             defaultMap[i \in 0..Len(keys)] ==
                 IF i = 0 THEN <<>>
                 ELSE LET key == keys[i].v
                          value == Get(enumType, key)
                      IN  IF ~isNaN(value)
                          THEN MapSet(defaultMap[i - 1], Get(enumType, key), default)
                          ELSE MapSet(defaultMap[i - 1],
                                      Get(enumType, ToPropertyKey(value)), default)
         IN  MapOf(defaultMap[Len(keys)])

InitEnum ==
    /\ input \in {[NoInput EXCEPT !.enumType = e, !.defaultValue = dv] :
                    <<e, dv>> \in EnumTypes \X DefaultValues}
    /\ output = NoOutput
    /\ store = <<>>

CallGetDefaultMap ==
    /\ output.getDefaultMap = NotCalled
    /\ output' = [output EXCEPT !.getDefaultMap =
                    getDefaultMap(input.enumType, input.defaultValue)]
    /\ UNCHANGED <<input, store>>

NextEnum == CallGetDefaultMap

SpecEnum == InitEnum /\ [][NextEnum]_vars

\* the values of the enumerants: the entries under a member name, the
\* reverse-lookup entries (numeric-string keys) left out
EnumerantValues(enumType) ==
    {e[2] : e \in {x \in Range(enumType.v) : ~IsNumericString(x[1])}}

\* C9: getDefaultMap(enumLike, defaultValue) is a mapping whose key set is
\* exactly the enumerant values of enumLike, one entry each, every one
\* mapped to defaultValue (false when omitted), for numeric enumerations
\* with and without reverse-lookup entries and for string-valued ones.
C9_GetDefaultMap ==
    output.getDefaultMap # NotCalled =>
        LET entries == output.getDefaultMap.v
            default == IF input.defaultValue = Undefined
                       THEN Bool(FALSE) ELSE input.defaultValue
        IN  /\ output.getDefaultMap.t = "Map"
            /\ {entries[i][1] : i \in 1..Len(entries)} = EnumerantValues(input.enumType)
            /\ Len(entries) = Cardinality(EnumerantValues(input.enumType))
            /\ \A i \in 1..Len(entries) : entries[i][2] = default

C9_FailingInput ==
    /\ input.enumType = Obj(<<<<"A", Str("a")>>, <<"B", Str("b")>>>>)
    /\ input.defaultValue = Bool(TRUE)
    /\ output.getDefaultMap = MapOf(<<<<Undefined, Bool(TRUE)>>>>)

(***************************************************************************)
(* flatten / hashFromNumberArray                                           *)
(***************************************************************************)
\* the item is put in front of what has been flattened so far
Concat_prepend(flattened, item) ==
    IF item.t = "Array" THEN item.v \o flattened ELSE <<item>> \o flattened

\* flattened.concat(item): an array is spread, any other value is appended
Concat(flattened, item) ==
    IF item.t = "Array" THEN flattened \o item.v ELSE Append(flattened, item)

flatten(collection) ==
    LET \* the inner values in iteration order
        inner == CASE collection.t = "Map" ->
                        [i \in 1..Len(collection.v) |-> collection.v[i][2]]
                   [] collection.t = "Array" -> collection.v
                   [] OTHER -> <<>>
        flattened[i \in 0..Len(inner)] ==
            IF i = 0 THEN <<>> ELSE Concat(flattened[i - 1], inner[i])
    IN  Arr(flattened[Len(inner)])

\* NumberUtils.isWholeNumber(num): a number without a fractional part
isWholeNumber(num) == num.t = "number"

\* the filter tests the truthiness of num instead of num != null
hashFromNumberArray_truthy(array) ==
    IF isEmpty(<<array>>)
    THEN Obj(<<>>)
    ELSE LET filteredArray ==
                SelectSeq(array.v,
                          LAMBDA num : num.t = "number" /\ num.v # 0 /\ isWholeNumber(num))
             nums == Ascending({filteredArray[i].v : i \in 1..Len(filteredArray)})
         IN  Obj([k \in 1..Len(nums) |-> <<NumToStr(nums[k]), Num(nums[k])>>])

hashFromNumberArray(array) ==
    IF isEmpty(<<array>>)
    THEN Obj(<<>>)
    ELSE LET filteredArray ==
                SelectSeq(array.v,
                          LAMBDA num : isNotNullOrUndefined(num) /\ isWholeNumber(num))
             \* hash[num] = num; Object.keys lists integer keys in ascending order
             nums == Ascending({filteredArray[i].v : i \in 1..Len(filteredArray)})
         IN  Obj([k \in 1..Len(nums) |-> <<NumToStr(nums[k]), Num(nums[k])>>])

(***************************************************************************)
(* null and undefined containers                                           *)
(***************************************************************************)
Nullish == {Null, Undefined}

\* the other collection of differenceOf / intersectionOf
OtherCollections ==
    {Arr(<<>>), Arr(<<Num(0)>>), Lst(<<Num(1), Num(0)>>), Null}

InitNullish ==
    /\ input \in
        {[NoInput EXCEPT !.collectionA = IF first THEN n ELSE o,
                         !.collectionB = IF first THEN o ELSE n,
                         !.comparator = c,
                         !.collections = <<n>>,
                         !.collection = n,
                         !.type = t,
                         !.enumType = n,
                         !.defaultValue = dv] :
            <<n, o, first, c, t, dv>> \in
                Nullish \X OtherCollections \X BOOLEAN \X {Undefined, Fn("lessThan")}
                    \X {Str("number"), Fn("Base")} \X {Undefined, Bool(TRUE)}}
    /\ output = NoOutput
    /\ store = <<>>

CallFlatten ==
    /\ output.flatten = NotCalled
    /\ output' = [output EXCEPT !.flatten = flatten(input.collection)]
    /\ UNCHANGED <<input, store>>

CallHashFromNumberArray ==
    /\ output.hashFromNumberArray = NotCalled
    /\ output' = [output EXCEPT !.hashFromNumberArray =
                    hashFromNumberArray(input.collection)]
    /\ UNCHANGED <<input, store>>

NextNullish ==
    \/ CallDifferenceOf
    \/ CallIntersectionOf
    \/ CallFlatten
    \/ CallIsEmpty
    \/ CallHasValues
    \/ CallHashFromNumberArray
    \/ CallIsComprisedOf
    \/ CallGetDefaultMap

SpecNullish == InitNullish /\ [][NextNullish]_vars

\* the container with null and undefined replaced by the empty array
OrEmpty(collection) ==
    IF collection \in Nullish THEN Arr(<<>>) ELSE collection

\* C8: a null or undefined container passed to differenceOf,
\* intersectionOf, flatten, isEmpty, hasValues, hashFromNumberArray,
\* isComprisedOf or getDefaultMap raises no error and gives the result of
\* the operation on an empty container.
C8_NullishContainers ==
    /\ output.differenceOf # NotCalled =>
          output.differenceOf = differenceOf(OrEmpty(input.collectionA),
                                             OrEmpty(input.collectionB),
                                             input.comparator)
    /\ output.intersectionOf # NotCalled =>
          output.intersectionOf = intersectionOf(OrEmpty(input.collectionA),
                                                 OrEmpty(input.collectionB),
                                                 input.comparator)
    /\ output.flatten # NotCalled => output.flatten = Arr(<<>>)
    /\ output.isEmpty # NotCalled => output.isEmpty = Bool(TRUE)
    /\ output.hasValues # NotCalled => output.hasValues = Bool(FALSE)
    /\ output.hashFromNumberArray # NotCalled =>
          output.hashFromNumberArray = Obj(<<>>)
    /\ output.isComprisedOf # NotCalled => output.isComprisedOf = Bool(TRUE)
    /\ output.getDefaultMap # NotCalled => output.getDefaultMap = MapOf(<<>>)

C8_FailingInput ==
    /\ input.enumType = Null
    /\ output.getDefaultMap = Throw("TypeError")

(***************************************************************************)
(* isEqual                                                                 *)
(***************************************************************************)
MaxRefs == 2

\* a reference to the plain object heap[i]
Ref(i) == [t |-> "ref", v |-> i]

\* the source text Function.prototype.toString gives for a caller's function
FnSource(name) == IF name \in {"f", "g"} THEN "() => 1" ELSE "() => 2"

\* value.toString(); null and undefined have no properties
toString(value) ==
    CASE isNullOrUndefined(value) -> Throw("TypeError")
      [] value.t = "function" -> Str(FnSource(value.v))
      [] value.t = "string" -> value
      [] value.t = "number" -> Str(NumToStr(value.v))
      [] value.t = "NaN" -> Str("NaN")
      [] value.t = "boolean" -> Str(IF value.v THEN "true" ELSE "false")
      [] OTHER -> Str("[object Object]")

\* every key counts as found
indexOf_found(keys, key) == 0

\* keys.indexOf(key)
indexOf(keys, key) ==
    IF \E i \in 1..Len(keys) : keys[i] = key
    THEN (CHOOSE i \in 1..Len(keys) :
            keys[i] = key /\ \A j \in 1..(i - 1) : keys[j] # key) - 1
    ELSE -1

\* the loop has not returned
Continue == [t |-> "continue", v |-> 0]

RECURSIVE isEqual(_, _, _)
isEqual(heap, objectA, objectB) ==
    IF StrictEquals(objectA, objectB)
    THEN Bool(TRUE)
    ELSE IF \/ TypeOf(objectA) # "object"
            \/ TypeOf(objectB) # "object"
            \/ isNullOrUndefined(objectA)
            \/ isNullOrUndefined(objectB)
    THEN Bool(FALSE)
    ELSE LET A == heap[objectA.v]
             B == heap[objectB.v]
             keysA == ObjectKeys(A).v
             keysB == ObjectKeys(B).v
             \* what the for loop has returned after the keys 1..i of keysA
             loop[i \in 0..Len(keysA)] ==
                 IF i = 0 THEN Continue
                 ELSE IF loop[i - 1] # Continue THEN loop[i - 1]
                 ELSE LET key == keysA[i]
                          a == Get(A, key.v)
                          b == Get(B, key.v)
                      IN  IF indexOf(keysB, key) = -1
                          THEN Bool(FALSE)
                          ELSE IF TypeOf(a) = "function" \/ TypeOf(b) = "function"
                          THEN IF toString(a).t = "throw" \/ toString(b).t = "throw"
                               THEN Throw("TypeError")
                               ELSE IF toString(a) # toString(b)
                               THEN Bool(FALSE)
                               ELSE Continue
                          ELSE LET inner == isEqual(heap, a, b)
                               IN  IF inner = Bool(TRUE) THEN Continue ELSE inner
         IN  IF Len(keysA) # Len(keysB)
             THEN Bool(FALSE)
             ELSE IF loop[Len(keysA)] = Continue
             THEN Bool(TRUE)
             ELSE loop[Len(keysA)]

PlainLeaves == {Undefined, Null, NaN, Num(1)}

\* plain objects with the keys of Keys in any insertion order
ObjectsOver(Vals) == UNION {{Obj(e) : e \in EntriesOver(ks, Vals)} : ks \in KeyLists}

\* the nested objects: at most the first key of Keys, holding a leaf
InnerObjects(Leaves) == {Obj(<<>>)} \cup {Obj(<<<<Keys[1], x>>>>) : x \in Leaves}

\* the values an outer object or an argument may hold
OuterVals(Leaves) == Leaves \cup {Ref(i) : i \in 1..MaxRefs}

\* the heap holds MaxRefs nested objects, then the outer objects.  The
\* arguments are two distinct outer objects, or one outer object passed
\* twice, or two values that are leaves or nested objects.
InitEqual ==
    /\ \E inner \in [1..MaxRefs -> InnerObjects(PlainLeaves)] :
          \/ \E outer \in [1..2 -> ObjectsOver(OuterVals(PlainLeaves))] :
                input = [NoInput EXCEPT !.heap = inner \o outer,
                                        !.objectA = Ref(MaxRefs + 1),
                                        !.objectB = Ref(MaxRefs + 2)]
          \/ \E outer \in [1..1 -> ObjectsOver(OuterVals(PlainLeaves))] :
                input = [NoInput EXCEPT !.heap = inner \o outer,
                                        !.objectA = Ref(MaxRefs + 1),
                                        !.objectB = Ref(MaxRefs + 1)]
          \/ \E a, b \in OuterVals(PlainLeaves) :
                input = [NoInput EXCEPT !.heap = inner, !.objectA = a, !.objectB = b]
    /\ output = NoOutput
    /\ store = <<>>

CallIsEqual ==
    /\ output.isEqual = NotCalled
    /\ output' = [output EXCEPT !.isEqual =
                    isEqual(input.heap, input.objectA, input.objectB)]
    /\ UNCHANGED <<input, store>>

NextEqual == CallIsEqual

SpecEqual == InitEqual /\ [][NextEqual]_vars

\* the keys of a plain object, as a set
KeySet(object) == {e[1] : e \in Range(object.v)}

\* equality as the contract states it: the same reference or strictly
\* equal primitives, or two objects with one key set and equal values
\* under every key
RECURSIVE DeepEqual(_, _, _)
DeepEqual(heap, a, b) ==
    \/ a.t = "ref" /\ b.t = "ref" /\ a.v = b.v
    \/ a.t \in {"undefined", "null", "number", "string", "boolean"} /\ a = b
    \/ /\ a.t = "ref"
       /\ b.t = "ref"
       /\ KeySet(heap[a.v]) = KeySet(heap[b.v])
       /\ \A key \in KeySet(heap[a.v]) :
             DeepEqual(heap, Get(heap[a.v], key), Get(heap[b.v], key))

\* C6: on values built from primitives, null and nested plain objects
\* without function-valued properties isEqual(a, b) is true iff a and b are
\* the same reference or strictly equal primitives, or both are objects
\* with the same key set, in any key order, whose values are pairwise
\* isEqual; it is false in every other case.
C6_IsEqual ==
    output.isEqual # NotCalled =>
        output.isEqual = Bool(DeepEqual(input.heap, input.objectA, input.objectB))

\* two distinct objects, keys in different order, one nested object shared
\* by reference and holding NaN
C6_Witness ==
    /\ Len(input.heap) = MaxRefs + 2
    /\ input.heap[1] = Obj(<<<<"a", NaN>>>>)
    /\ input.heap[MaxRefs + 1] = Obj(<<<<"a", Ref(1)>>, <<"b", Undefined>>>>)
    /\ input.heap[MaxRefs + 2] = Obj(<<<<"b", Undefined>>, <<"a", Ref(1)>>>>)
    /\ input.objectA = Ref(MaxRefs + 1)
    /\ input.objectB = Ref(MaxRefs + 2)
    /\ output.isEqual = Bool(TRUE)

\* leaves with functions: f and g have the same source text, h another, and
\* one string spells the source text of f
FnLeaves == {Undefined, Null, Num(1), Str("() => 1"), Fn("f"), Fn("g"), Fn("h")}

\* two distinct objects, or one object passed twice, holding FnLeaves
InitEqualFn ==
    /\ \/ \E outer \in [1..2 -> ObjectsOver(FnLeaves)] :
             input = [NoInput EXCEPT !.heap = outer,
                                     !.objectA = Ref(1), !.objectB = Ref(2)]
       \/ \E outer \in [1..1 -> ObjectsOver(FnLeaves)] :
             input = [NoInput EXCEPT !.heap = outer,
                                     !.objectA = Ref(1), !.objectB = Ref(1)]
    /\ output = NoOutput
    /\ store = <<>>

SpecEqualFn == InitEqualFn /\ [][NextEqual]_vars

\* the serialized text of a value: String(value)
SerializedText(value) ==
    CASE value.t = "null" -> Str("null")
      [] value.t = "undefined" -> Str("undefined")
      [] OTHER -> toString(value)

\* C7: isEqual returns a boolean and never throws; when the two objects
\* have the same key set and a key holds a function on at least one side,
\* the serialized texts of the two values under that key are compared,
\* also when the other value is not a function, is null or is undefined.
C7_IsEqualNeverThrows ==
    output.isEqual # NotCalled =>
        LET A == input.heap[input.objectA.v]
            B == input.heap[input.objectB.v]
        IN  /\ output.isEqual.t = "boolean"
            /\ (input.objectA # input.objectB /\ KeySet(A) = KeySet(B)) =>
                  output.isEqual.v =
                     \A key \in KeySet(A) :
                        IF TypeOf(Get(A, key)) = "function"
                              \/ TypeOf(Get(B, key)) = "function"
                        THEN SerializedText(Get(A, key)) = SerializedText(Get(B, key))
                        ELSE DeepEqual(input.heap, Get(A, key), Get(B, key))

C7_FailingInput ==
    /\ input.heap = <<Obj(<<<<"a", Fn("f")>>>>), Obj(<<<<"a", Null>>>>)>>
    /\ input.objectA = Ref(1)
    /\ input.objectB = Ref(2)
    /\ output.isEqual = Throw("TypeError")

(***************************************************************************)
(* flatten of a Map of arrays or of a 2D array                             *)
(***************************************************************************)
\* the inner arrays
InnerArrays == {Arr(s) : s \in SeqsUpTo(Elems, MaxLen)}

\* T[][]: an array of inner arrays
Arrays2D == {Arr(s) : s \in SeqsUpTo(InnerArrays, MaxLen)}

\* Map<any, T[]>: an Immutable Map from keys to inner arrays
MapsOfArrays ==
    UNION {{MapOf(e) : e \in EntriesOver(ks, InnerArrays)} : ks \in KeyLists}

InitFlatten ==
    /\ \E c \in Arrays2D \cup MapsOfArrays : input = [NoInput EXCEPT !.collection = c]
    /\ output = NoOutput
    /\ store = <<>>

NextFlatten == CallFlatten

SpecFlatten == InitFlatten /\ [][NextFlatten]_vars

\* the inner sequences of the outer container in iteration order
InnerSequences(collection) ==
    IF collection.t = "Map"
    THEN [i \in 1..Len(collection.v) |-> collection.v[i][2].v]
    ELSE [i \in 1..Len(collection.v) |-> collection.v[i].v]

\* the concatenation of a sequence of sequences
RECURSIVE Concatenation(_)
Concatenation(ss) ==
    IF ss = <<>> THEN <<>> ELSE Head(ss) \o Concatenation(Tail(ss))

\* C11: flatten(collection) is one array, the concatenation in iteration
\* order of every inner sequence of the outer container, the same for a
\* mapping of the inner sequences and for a sequence of them; no inner
\* sequences give the empty array.
C11_Flatten ==
    output.flatten # NotCalled =>
        /\ output.flatten = Arr(Concatenation(InnerSequences(input.collection)))
        /\ output.flatten = flatten(Arr([i \in 1..Len(input.collection.v) |->
                                            Arr(InnerSequences(input.collection)[i])]))

C11_Witness ==
    /\ input.collection = MapOf(<<<<"b", Arr(<<Num(1), Num(0)>>)>>, <<"a", Arr(<<Num(1)>>)>>>>)
    /\ output.flatten = Arr(<<Num(1), Num(0), Num(1)>>)

(***************************************************************************)
(* hashFromNumberArray of arrays with whole, fractional and missing numbers *)
(***************************************************************************)
MaxHashLen == 4

HashElems ==
    {Num(n) : n \in 0..(MaxVal + 2)} \cup {Frac(2), NaN, Null, Undefined}

InitHash ==
    /\ \/ \E k \in 0..MaxHashLen :
             \E s \in [1..k -> HashElems] : input = [NoInput EXCEPT !.collection = Arr(s)]
       \/ \E n \in Nullish : input = [NoInput EXCEPT !.collection = n]
    /\ output = NoOutput
    /\ store = <<>>

NextHash == CallHashFromNumberArray

SpecHash == InitHash /\ [][NextHash]_vars

\* the whole numbers among the elements of the array
WholeNumbersOf(array) == {e \in Range(ListOf(array)) : e.t = "number"}

\* C12: hashFromNumberArray(seq) is a mapping whose keys are exactly the
\* whole-number elements of seq, each mapped to itself; null, undefined and
\* non-whole entries are dropped without an error, duplicates give one
\* entry, and an empty seq gives the empty mapping.
C12_HashFromNumberArray ==
    output.hashFromNumberArray # NotCalled =>
        LET hash == output.hashFromNumberArray
            whole == WholeNumbersOf(input.collection)
        IN  /\ hash.t = "Object"
            /\ KeySet(hash) = {NumToStr(e.v) : e \in whole}
            /\ Len(hash.v) = Cardinality(whole)
            /\ \A e \in whole : Get(hash, NumToStr(e.v)) = e

\* [1, 2.5, null, 3] gives {1: 1, 3: 3}
C12_Witness ==
    /\ input.collection = Arr(<<Num(1), Frac(2), Null, Num(3)>>)
    /\ output.hashFromNumberArray = Obj(<<<<"1", Num(1)>>, <<"3", Num(3)>>>>)

(***************************************************************************)
(* The functions on containers held in the store.  An array or a plain     *)
(* object is passed by reference: the argument is Ref(a) and store[a] its  *)
(* contents.  An Immutable List is an object of the store too; the library *)
(* keeps one empty List, which every List without elements is.  Each       *)
(* function gives the store it leaves behind and the value it returns.     *)
(***************************************************************************)
\* the value a reference stands for, nested references resolved
RECURSIVE Deref(_, _)
Deref(st, x) ==
    IF x.t # "ref" THEN x
    ELSE LET c == st[x.v]
         IN  IF c.t \in {"Array", "List"}
             THEN [t |-> c.t, v |-> [i \in 1..Len(c.v) |-> Deref(st, c.v[i])]]
             ELSE Obj([i \in 1..Len(c.v) |-> <<c.v[i][1], Deref(st, c.v[i][2])>>])

\* the address of the library's one empty List
emptyList(st) == CHOOSE a \in 1..Len(st) : st[a] = Lst(<<>>)

\* filter(...).toList(), filterNot(...).toList(): a List with elements is a
\* new List, a List without elements is the library's empty List
toList(st, list) ==
    IF Len(list.v) = 0
    THEN [store |-> st, result |-> Ref(emptyList(st))]
    ELSE [store |-> Append(st, list), result |-> Ref(Len(st) + 1)]

\* List(collection) is the collection itself when that is a List, else a
\* List of its elements, which only the call holds
differenceOfIn(st, collectionA, collectionB, comparator) ==
    toList(st, differenceOf(Deref(st, collectionA), Deref(st, collectionB), comparator))

intersectionOfIn(st, collectionA, collectionB, comparator) ==
    toList(st, intersectionOf(Deref(st, collectionA), Deref(st, collectionB), comparator))

\* flattened is the first inner array and is appended to in place
flattenIn_push(st, collection) ==
    LET outer == st[collection.v].v
    IN  IF outer = <<>>
        THEN [store |-> Append(st, Arr(<<>>)), result |-> Ref(Len(st) + 1)]
        ELSE [store |-> [st EXCEPT ![outer[1].v] = flatten(Deref(st, collection))],
              result |-> outer[1]]

\* flattened starts as a new array and every concat gives a new array
flattenIn(st, collection) ==
    [store |-> Append(st, flatten(Deref(st, collection))),
     result |-> Ref(Len(st) + 1)]

\* hash is a new object; array.filter gives a new array
hashFromNumberArrayIn(st, array) ==
    [store |-> Append(st, hashFromNumberArray(Deref(st, array))),
     result |-> Ref(Len(st) + 1)]

isEmptyIn(st, collections) ==
    [store |-> st,
     result |-> Bool(isEmpty([i \in 1..Len(collections) |-> Deref(st, collections[i])]))]

hasValuesIn(st, collections) ==
    [store |-> st,
     result |-> Bool(hasValues([i \in 1..Len(collections) |-> Deref(st, collections[i])]))]

isComprisedOfIn(st, collection, type) ==
    [store |-> st, result |-> Bool(isComprisedOf(Deref(st, collection), type))]

isEqualIn(st, objectA, objectB) ==
    [store |-> st, result |-> isEqual(st, objectA, objectB)]

\* the plain objects handed to isEmpty, hasValues and isEqual
StoredHashes == {Obj(<<>>), Obj(<<<<"a", Num(0)>>, <<"b", NaN>>>>)}

\* the Lists with elements among the Lists of the elements of two arrays
ListsOf(a1, a2) ==
    SelectSeq(<<Lst(a1.v), Lst(a2.v)>>, LAMBDA l : Len(l.v) > 0)

\* the address in st of the List with the elements of the array at address a
ListAt(st, a) == CHOOSE l \in 1..Len(st) : st[l] = Lst(st[a].v)

\* store[1], store[2]: two arrays; store[3]: an array of those arrays;
\* store[4], store[5]: two plain objects; store[6]: the empty List; then
\* the Lists with the elements of store[1] and of store[2]
InitStored ==
    /\ \E a1, a2 \in InnerArrays :
          \E outer \in {<<Ref(1), Ref(2)>>, <<Ref(2), Ref(1), Ref(2)>>, <<>>} :
             \E h1, h2 \in StoredHashes :
                store = <<a1, a2, Arr(outer), h1, h2, Lst(<<>>)>> \o ListsOf(a1, a2)
    /\ \E a \in {Ref(1), Ref(ListAt(store, 1))}, b \in {Ref(2), Ref(ListAt(store, 2))} :
          \E c \in {Undefined, Fn("lessThan")} :
             input = [NoInput EXCEPT !.collectionA = a, !.collectionB = b,
                                     !.comparator = c,
                                     !.collection = Ref(3),
                                     !.array = Ref(1), !.type = Str("number"),
                                     !.collections = <<Ref(1), Ref(4)>>,
                                     !.objectA = Ref(4), !.objectB = Ref(5)]
    /\ output = NoOutput

StoredDifferenceOf ==
    LET call == differenceOfIn(store, input.collectionA, input.collectionB,
                               input.comparator)
    IN  /\ output = NoOutput
        /\ output' = [output EXCEPT !.differenceOf = call.result]
        /\ store' = call.store
        /\ UNCHANGED input

StoredIntersectionOf ==
    LET call == intersectionOfIn(store, input.collectionA, input.collectionB,
                                 input.comparator)
    IN  /\ output = NoOutput
        /\ output' = [output EXCEPT !.intersectionOf = call.result]
        /\ store' = call.store
        /\ UNCHANGED input

StoredFlatten ==
    LET call == flattenIn(store, input.collection)
    IN  /\ output = NoOutput
        /\ output' = [output EXCEPT !.flatten = call.result]
        /\ store' = call.store
        /\ UNCHANGED input

StoredHashFromNumberArray ==
    LET call == hashFromNumberArrayIn(store, input.array)
    IN  /\ output = NoOutput
        /\ output' = [output EXCEPT !.hashFromNumberArray = call.result]
        /\ store' = call.store
        /\ UNCHANGED input

StoredIsEmpty ==
    LET call == isEmptyIn(store, input.collections)
    IN  /\ output = NoOutput
        /\ output' = [output EXCEPT !.isEmpty = call.result]
        /\ store' = call.store
        /\ UNCHANGED input

StoredHasValues ==
    LET call == hasValuesIn(store, input.collections)
    IN  /\ output = NoOutput
        /\ output' = [output EXCEPT !.hasValues = call.result]
        /\ store' = call.store
        /\ UNCHANGED input

StoredIsComprisedOf ==
    LET call == isComprisedOfIn(store, input.array, input.type)
    IN  /\ output = NoOutput
        /\ output' = [output EXCEPT !.isComprisedOf = call.result]
        /\ store' = call.store
        /\ UNCHANGED input

StoredIsEqual ==
    LET call == isEqualIn(store, input.objectA, input.objectB)
    IN  /\ output = NoOutput
        /\ output' = [output EXCEPT !.isEqual = call.result]
        /\ store' = call.store
        /\ UNCHANGED input

NextStored ==
    \/ StoredDifferenceOf
    \/ StoredIntersectionOf
    \/ StoredFlatten
    \/ StoredHashFromNumberArray
    \/ StoredIsEmpty
    \/ StoredHasValues
    \/ StoredIsComprisedOf
    \/ StoredIsEqual

SpecStored == InitStored /\ [][NextStored]_vars

\* the call just made returned a container at an address not in use before
ReturnsNewContainer(f) ==
    output'[f] # output[f] => output'[f].t = "ref" /\ output'[f].v > Len(store)

\* the call just made returned a container that is none of its arguments
DistinctFromInputs(f) ==
    output'[f] # output[f] =>
        /\ output'[f].t = "ref"
        /\ output'[f] \notin {input.collectionA, input.collectionB,
                              input.collection, input.array}

\* the call just made returned a new List, or the library's empty List
\* when the result has no elements
ReturnsNewOrEmptyList(f) ==
    output'[f] # output[f] =>
        /\ output'[f].t = "ref"
        /\ store'[output'[f].v].t = "List"
        /\ \/ output'[f].v > Len(store)
           \/ store[output'[f].v] = Lst(<<>>)

\* every container of the store holds after the step what it held before
InputsUnchanged ==
    \A a \in 1..Len(store) : Len(store') >= a /\ store'[a] = store[a]

\* C13 as stated: no set operation modifies its arguments: after
\* differenceOf, intersectionOf, flatten, hashFromNumberArray, isEmpty,
\* hasValues, isComprisedOf or isEqual every input container holds what it
\* held before, and the result of differenceOf, intersectionOf, flatten
\* and hashFromNumberArray is a container distinct from the inputs.
C13_NoMutation ==
    [][/\ InputsUnchanged
       /\ DistinctFromInputs("flatten")
       /\ DistinctFromInputs("hashFromNumberArray")
       /\ DistinctFromInputs("differenceOf")
       /\ DistinctFromInputs("intersectionOf")]_vars

\* C13: no set operation modifies its arguments: after each of the eight
\* functions every input container holds what it held before; the result
\* of flatten and hashFromNumberArray is a new container, and the result of
\* differenceOf and intersectionOf is a new List when it has elements and
\* the library's one empty List when it has none, which is an argument
\* exactly when that argument is a List without elements.
C13_NoMutationSharedEmpty ==
    [][/\ InputsUnchanged
       /\ ReturnsNewContainer("flatten")
       /\ ReturnsNewContainer("hashFromNumberArray")
       /\ ReturnsNewOrEmptyList("differenceOf")
       /\ ReturnsNewOrEmptyList("intersectionOf")
       /\ \A f \in {"differenceOf", "intersectionOf"} :
             (output'[f] # output[f]
              /\ output'[f] \in {input.collectionA, input.collectionB}) =>
                store[output'[f].v] = Lst(<<>>)]_vars

\* intersectionOf([1], List()) returns the empty List it was given
C13_Witness ==
    /\ Len(store) = 7
    /\ store[1] = Arr(<<Num(1)>>)
    /\ store[6] = Lst(<<>>)
    /\ input.collectionA = Ref(1)
    /\ input.collectionB = Ref(6)
    /\ output.intersectionOf = Ref(6)

\* differenceOf(List([1]), [0, NaN]) returns a new List of 1 and leaves the
\* List it was given as it was
C13_WitnessNewList ==
    /\ Len(store) = 9
    /\ store[7] = Lst(<<Num(1)>>)
    /\ input.collectionA = Ref(7)
    /\ input.collectionB = Ref(2)
    /\ output.differenceOf = Ref(9)
    /\ store[9] = Lst(<<Num(1)>>)

(***************************************************************************)
(* DateUtils: dateDiff / dateDiffNow / dateDiffNowFriendly.  An instant is *)
(* a number of seconds; the clock is read as one instant during a call.    *)
(***************************************************************************)
MaxAgeHours == 49

\* x / n with the fraction dropped (Moment's absFloor)
absFloor(x, n) == IF x >= 0 THEN x \div n ELSE -((-x) \div n)

\* Moment(a).diff(b, unitOftime, false): whole units from b to a
dateDiff(a, b, unitOftime) ==
    CASE unitOftime = "minutes" -> absFloor(a - b, 60)
      [] unitOftime = "hours" -> absFloor(a - b, 3600)
      [] unitOftime = "days" -> absFloor(a - b, 86400)

\* now is Date.now()
dateDiffNow(now, date, unitOftime) == dateDiff(now, date, unitOftime)

DateDiffNowFriendlyReturn(value, unit) ==
    [t |-> "DateDiffNowFriendlyReturn", v |-> [value |-> value, unit |-> unit]]

\* the unit is never given its plural
dateDiffNowFriendly_singular(now, date) ==
    LET hours == dateDiffNow(now, date, "hours")
        unit1 == IF hours < 1 THEN "minute" ELSE "hour"
        timeAgo1 == IF hours < 1 THEN dateDiffNow(now, date, "minutes") ELSE hours
        unit2 == IF timeAgo1 > 24 THEN "day" ELSE unit1
        timeAgo2 == IF timeAgo1 > 24 THEN dateDiffNow(now, date, "days") ELSE timeAgo1
    IN  DateDiffNowFriendlyReturn(timeAgo2, unit2)

dateDiffNowFriendly(now, date) ==
    LET hours == dateDiffNow(now, date, "hours")
        \* if (timeAgo < 1)
        unit1 == IF hours < 1 THEN "minute" ELSE "hour"
        timeAgo1 == IF hours < 1 THEN dateDiffNow(now, date, "minutes") ELSE hours
        \* if (timeAgo > 24)
        unit2 == IF timeAgo1 > 24 THEN "day" ELSE unit1
        timeAgo2 == IF timeAgo1 > 24 THEN dateDiffNow(now, date, "days") ELSE timeAgo1
        unitText == IF timeAgo2 # 1 THEN unit2 \o "s" ELSE unit2
    IN  DateDiffNowFriendlyReturn(timeAgo2, unitText)

\* the seconds past the whole minute of the ages drawn
AgeSeconds == {0, 1, 59}

\* timestamps from 2 minutes in the future to MaxAgeHours hours in the past
InitDiff ==
    /\ \E m \in (-2)..(MaxAgeHours * 60 + 59) :
          \E s \in AgeSeconds :
             input = [NoInput EXCEPT !.now = 1000000, !.date = 1000000 - (m * 60 + s)]
    /\ output = NoOutput
    /\ store = <<>>

CallDateDiffNowFriendly ==
    /\ output.dateDiffNowFriendly = NotCalled
    /\ output' = [output EXCEPT !.dateDiffNowFriendly =
                    dateDiffNowFriendly(input.now, input.date)]
    /\ UNCHANGED <<input, store>>

NextDiff == CallDateDiffNowFriendly

SpecDiff == InitDiff /\ [][NextDiff]_vars

\* the age of the timestamp in seconds, and the whole units in it
Age == input.now - input.date
WholeMinutes == Age \div 60
WholeHours == Age \div 3600
WholeDays == Age \div 86400

\* C18: for a timestamp m whole minutes in the past, 0 <= m < 60,
\* dateDiffNowFriendly gives value m and the unit "minute" when m = 1,
\* "minutes" otherwise; 30 minutes in the past gives {30, "minutes"}.
C18_Minutes ==
    (output.dateDiffNowFriendly # NotCalled /\ Age >= 0 /\ WholeMinutes < 60) =>
        output.dateDiffNowFriendly =
            DateDiffNowFriendlyReturn(WholeMinutes,
                                      IF WholeMinutes = 1 THEN "minute" ELSE "minutes")

C18_FailingInput ==
    /\ Age = 30 * 60
    /\ output.dateDiffNowFriendly = DateDiffNowFriendlyReturn(0, "days")

\* C19 as stated: for a timestamp whose age in whole hours exceeds 24 the
\* value is the number of whole elapsed days and the unit is "days"; an age
\* of exactly 24 whole hours is reported in hours.
C19_DaysAlwaysPlural ==
    output.dateDiffNowFriendly # NotCalled =>
        /\ WholeHours > 24 =>
              output.dateDiffNowFriendly = DateDiffNowFriendlyReturn(WholeDays, "days")
        /\ WholeHours = 24 =>
              output.dateDiffNowFriendly = DateDiffNowFriendlyReturn(24, "hours")

\* C19: for a timestamp whose age in whole hours exceeds 24 the value is
\* the number of whole elapsed days, with the unit "day" when that number
\* is 1 and "days" otherwise; an age of exactly 24 whole hours is reported
\* in hours.
C19_Days ==
    output.dateDiffNowFriendly # NotCalled =>
        /\ WholeHours > 24 =>
              output.dateDiffNowFriendly =
                 DateDiffNowFriendlyReturn(WholeDays,
                                           IF WholeDays = 1 THEN "day" ELSE "days")
        /\ WholeHours = 24 =>
              output.dateDiffNowFriendly = DateDiffNowFriendlyReturn(24, "hours")

\* 36 hours in the past
C19_Witness ==
    /\ Age = 36 * 3600 + 59
    /\ output.dateDiffNowFriendly = DateDiffNowFriendlyReturn(1, "day")

(***************************************************************************)
(* Canonical dates (Moment objects).  A date is a mutable object held in   *)
(* the store: year, month (0 = January), date (day of the month), hour,    *)
(* minute and second as read in its zone, the zone's offset in hours from  *)
(* the local zone, or an invalid date.                                     *)
(***************************************************************************)
Moment(year, month, date, time) ==
    [t |-> "moment", valid |-> TRUE, year |-> year, month |-> month, date |-> date,
     hour |-> time[1], minute |-> time[2], second |-> time[3], offset |-> 0]

\* Moment.invalid(): every getter gives NaN
InvalidMoment ==
    [t |-> "moment", valid |-> FALSE, year |-> 0, month |-> 0, date |-> 0,
     hour |-> 0, minute |-> 0, second |-> 0, offset |-> 0]

isLeapYear(year) == (year % 4 = 0 /\ year % 100 # 0) \/ year % 400 = 0

daysInMonth(year, month) ==
    IF month = 1 THEN (IF isLeapYear(year) THEN 29 ELSE 28)
    ELSE IF month \in {3, 5, 8, 10} THEN 30 ELSE 31

\* moment.set("month", value): the day of the month is clamped to the month
setMonth(mom, value) ==
    [mom EXCEPT !.month = value,
                !.date = IF mom.date < daysInMonth(mom.year, value)
                         THEN mom.date ELSE daysInMonth(mom.year, value)]

\* moment.set("date", value), 1 <= value <= 31: Date.setDate, a day past the
\* end of the month runs over into the next month
setDate(mom, value) ==
    IF value <= daysInMonth(mom.year, mom.month)
    THEN [mom EXCEPT !.date = value]
    ELSE [mom EXCEPT !.date = value - daysInMonth(mom.year, mom.month),
                     !.month = (mom.month + 1) % 12,
                     !.year = IF mom.month = 11 THEN mom.year + 1 ELSE mom.year]

\* moment.set("year", value): February 29 is clamped to the new year's February
setYear(mom, value) ==
    [mom EXCEPT !.year = value,
                !.date = IF mom.date < daysInMonth(value, mom.month)
                         THEN mom.date ELSE daysInMonth(value, mom.month)]

\* the dates are not tested for validity
copyDate_unchecked(from, to) ==
    setYear(setDate(setMonth(to, from.month), from.date), from.year)

\* the value of the object `to` after copyDate(from, to), which returns `to`
copyDate(from, to) ==
    IF from.valid /\ to.valid
    THEN setYear(setDate(setMonth(to, from.month), from.date), from.year)
    ELSE to

Years == {2023, 2024}
Months == {0, 1, 2, 3, 11}
Dates == {1, 28, 29, 30, 31}
Times == {<<0, 0, 0>>, <<23, 59, 59>>}

Moments ==
    {Moment(y, m, dd, tm) : y \in Years, m \in Months, dd \in Dates, tm \in Times}

ValidMoments == {mom \in Moments : mom.date <= daysInMonth(mom.year, mom.month)}

\* two date objects at addresses 1 and 2; `to` may be the object `from`
InitCopy ==
    /\ \E hp \in [1..2 -> ValidMoments \cup {InvalidMoment}] :
          \E a \in 1..2 :
             input = [NoInput EXCEPT !.heap = hp, !.from = Ref(1), !.to = Ref(a)]
    /\ output = NoOutput
    /\ store = input.heap

CallCopyDate ==
    /\ output = NoOutput
    /\ store' = [store EXCEPT ![input.to.v] =
                    copyDate(store[input.from.v], store[input.to.v])]
    /\ output' = [output EXCEPT !.copyDate = input.to]
    /\ UNCHANGED input

\* the value of the object `to` after copyTime(from, to), which returns `to`
copyTime(from, to) ==
    IF from.valid /\ to.valid
    THEN [to EXCEPT !.hour = from.hour, !.minute = from.minute, !.second = from.second]
    ELSE to

CallCopyTime ==
    /\ output = NoOutput
    /\ store' = [store EXCEPT ![input.to.v] =
                    copyTime(store[input.from.v], store[input.to.v])]
    /\ output' = [output EXCEPT !.copyTime = input.to]
    /\ UNCHANGED input

\* CoreUtils.getMergedDateTime(date, time): the values the object `time`,
\* which is returned, may have after time.year(date.year())
\* .month(date.month()).date(date.date()).  There is no test for validity:
\* a setter does nothing to an invalid `time`; the getters of an invalid
\* `date` give NaN, which year() and date() ignore, while month(NaN) leaves
\* `time` as it is or as a date whose fields read NaN, depending on the
\* version of the date library.
getMergedDateTime(date, time) ==
    IF ~time.valid THEN {time}
    ELSE IF ~date.valid THEN {time, InvalidMoment}
    ELSE {setDate(setMonth(setYear(time, date.year), date.month), date.date)}

\* date is input.from and time is input.to
CallGetMergedDateTime ==
    /\ output = NoOutput
    /\ \E merged \in getMergedDateTime(store[input.from.v], store[input.to.v]) :
          store' = [store EXCEPT ![input.to.v] = merged]
    /\ output' = [output EXCEPT !.getMergedDateTime = input.to]
    /\ UNCHANGED input

NextCopy == CallCopyDate \/ CallCopyTime \/ CallGetMergedDateTime

SpecCopy == InitCopy /\ [][NextCopy]_vars

\* C20: for valid dates from and to, month-end and leap-day dates included,
\* copyDate(from, to) yields a date with the year, month and day of from and
\* the time of day of to.
C20_CopyDate ==
    (/\ output.copyDate # NotCalled
     /\ input.heap[input.from.v].valid
     /\ input.heap[input.to.v].valid) =>
        LET from == input.heap[input.from.v]
            to == input.heap[input.to.v]
            result == store[output.copyDate.v]
        IN  /\ result.valid
            /\ <<result.year, result.month, result.date>> =
                  <<from.year, from.month, from.date>>
            /\ <<result.hour, result.minute, result.second>> =
                  <<to.hour, to.minute, to.second>>

\* copyDate(2024-02-29, 2023-01-31T23:59:59) gives 2024-03-01T23:59:59
C20_FailingInput ==
    /\ output.copyDate = Ref(2)
    /\ input.heap = <<Moment(2024, 1, 29, <<0, 0, 0>>), Moment(2023, 0, 31, <<23, 59, 59>>)>>
    /\ store[2] = Moment(2024, 2, 1, <<23, 59, 59>>)

\* what copyDate or copyTime returned, once one of them has been called
Copied == IF output.copyDate # NotCalled THEN output.copyDate ELSE output.copyTime

\* C21: on valid operands copyDate(from, to) and copyTime(from, to) return
\* a new date object and leave both operands as they were: after the call
\* from and to are the same dates and times as before it.
C21_OperandsUnchanged ==
    (/\ Copied # NotCalled
     /\ input.heap[input.from.v].valid
     /\ input.heap[input.to.v].valid) =>
        /\ store = input.heap
        /\ Copied \notin {input.from, input.to}

\* copyTime(2024-02-29T00:00:00, 2023-01-31T23:59:59) returns the object
\* `to`, which is now 2023-01-31T00:00:00
C21_FailingInput ==
    /\ output.copyTime = Ref(2)
    /\ input.heap = <<Moment(2024, 1, 29, <<0, 0, 0>>), Moment(2023, 0, 31, <<23, 59, 59>>)>>
    /\ store[2] = Moment(2023, 0, 31, <<0, 0, 0>>)

\* C22: when from or to is an invalid date, copyDate(from, to) and
\* copyTime(from, to) return to with none of its fields changed and do not
\* throw.
C22_InvalidOperand ==
    (/\ Copied # NotCalled
     /\ ~(input.heap[input.from.v].valid /\ input.heap[input.to.v].valid)) =>
        /\ Copied = input.to
        /\ store = input.heap

\* copyDate of an invalid date onto 2023-01-31T23:59:59
C22_Witness ==
    /\ output.copyDate = Ref(2)
    /\ input.heap = <<InvalidMoment, Moment(2023, 0, 31, <<23, 59, 59>>)>>
    /\ store[2] = Moment(2023, 0, 31, <<23, 59, 59>>)

(***************************************************************************)
(* DateUtils.formatDate.  input.now is Moment(), the current time in the   *)
(* local zone; the timestamp is a date object of the store, null or        *)
(* undefined.                                                              *)
(***************************************************************************)
\* moment.add(1, "day") and moment.add(-1, "day")
addDay(mom, n) ==
    IF n = 1 THEN setDate(mom, mom.date + 1)
    ELSE IF mom.date > 1 THEN [mom EXCEPT !.date = mom.date - 1]
    ELSE IF mom.month > 0
         THEN [mom EXCEPT !.month = mom.month - 1,
                          !.date = daysInMonth(mom.year, mom.month - 1)]
         ELSE [mom EXCEPT !.year = mom.year - 1, !.month = 11, !.date = 31]

\* the same instant read `hours` hours further east, -23 <= hours <= 23
utcOffset(mom, hours) ==
    LET hour == mom.hour + (hours - mom.offset)
    IN  IF hour >= 24
        THEN [addDay(mom, 1) EXCEPT !.hour = hour - 24, !.offset = hours]
        ELSE IF hour < 0
             THEN [addDay(mom, -1) EXCEPT !.hour = hour + 24, !.offset = hours]
             ELSE [mom EXCEPT !.hour = hour, !.offset = hours]

\* the zones Moment Timezone has data for
TimeZones == {"Etc/GMT-12"}

\* moment.tz(timezone): sets the zone of the object it is called on; a name
\* without zone data leaves the object as it is
tz(mom, timezone) ==
    IF timezone.v \in TimeZones THEN utcOffset(mom, 12) ELSE mom

\* moment.isSame(now, units): now lies in the day (year) of moment, as read
\* in the zone of moment
isSame(mom, now, units) ==
    LET here == utcOffset(now, mom.offset)
    IN  IF units = "day"
        THEN <<mom.year, mom.month, mom.date>> = <<here.year, here.month, here.date>>
        ELSE mom.year = here.year

\* StringUtils.stringHasValue
stringHasValue(value) == value.t = "string" /\ value.v # ""

DateFormats ==
    [OrdinalTimeMeridian |-> Str("DateFormats.OrdinalTimeMeridian"),
     OrdinalMonthDayTimeMeridian |-> Str("DateFormats.OrdinalMonthDayTimeMeridian"),
     OrdinalMonthDayYearTimeMeridian |-> Str("DateFormats.OrdinalMonthDayYearTimeMeridian")]

\* the year is compared before the day
getDateFormatString_yearFirst(mom, now) ==
    IF isSame(mom, now, "year") THEN DateFormats.OrdinalMonthDayTimeMeridian
    ELSE IF isSame(mom, now, "day") THEN DateFormats.OrdinalTimeMeridian
    ELSE DateFormats.OrdinalMonthDayYearTimeMeridian

getDateFormatString(mom, now) ==
    IF isSame(mom, now, "day") THEN DateFormats.OrdinalTimeMeridian
    ELSE IF isSame(mom, now, "year") THEN DateFormats.OrdinalMonthDayTimeMeridian
    ELSE DateFormats.OrdinalMonthDayYearTimeMeridian

\* moment.format(formatString): the text of the date under the format
Format(mom, formatString) ==
    [t |-> "formatted", v |-> [format |-> formatString.v, moment |-> mom]]

\* only null and undefined count as invalid
invalidDateTime_nullOnly(heap, timestamp) == isNullOrUndefined(timestamp)

invalidDateTime(heap, timestamp) ==
    \/ isNullOrUndefined(timestamp)
    \/ ~heap[timestamp.v].valid

\* the label of the relative date, Undefined when there is none
relativeDate(given, now) ==
    LET todaysDate == now.date
        yesterdaysDate == addDay(now, -1).date
        tomorrowsDate == addDay(now, 1).date
        givenDate == given.date
    IN  IF givenDate = yesterdaysDate THEN Str("Yesterday")
        ELSE IF givenDate = todaysDate THEN Str("Today")
        ELSE IF givenDate = tomorrowsDate THEN Str("Tomorrow")
        ELSE Undefined

\* the store after formatDate(timestamp, format, showRelativeDates, timezone)
\* and what it returns
formatDate(heap, timestamp, format, showRelativeDates, timezone, now) ==
    IF invalidDateTime(heap, timestamp)
    THEN [store |-> heap, result |-> Null]
    ELSE IF showRelativeDates /\ relativeDate(heap[timestamp.v], now) # Undefined
    THEN [store |-> heap, result |-> relativeDate(heap[timestamp.v], now)]
    ELSE LET useTimezone == stringHasValue(timezone)
             \* timestamp.tz(timezone) acts on the object passed in
             after == IF useTimezone
                      THEN [heap EXCEPT ![timestamp.v] = tz(heap[timestamp.v], timezone)]
                      ELSE heap
             mom == after[timestamp.v]
             formatString == IF isNullOrUndefined(format)
                             THEN getDateFormatString(mom, now) ELSE format
         IN  [store |-> after, result |-> Format(mom, formatString)]

FormatArgs == {Undefined, Null, Str("YYYY-MM-DD"), DateFormats.OrdinalMonthDayYearTimeMeridian}
TimezoneArgs == {Undefined, Str(""), Str("Etc/GMT-12")}
Nows == {Moment(2024, 2, 1, <<23, 59, 59>>), Moment(2023, 11, 31, <<0, 0, 0>>),
         Moment(2024, 0, 29, <<0, 0, 0>>)}

InitFormat ==
    /\ \E ts \in ValidMoments \cup {InvalidMoment, Null, Undefined} :
          \E f \in FormatArgs, rel \in BOOLEAN, zone \in TimezoneArgs, now \in Nows :
             input = [NoInput EXCEPT
                        !.heap = IF ts.t = "moment" THEN <<ts>> ELSE <<>>,
                        !.timestamp = IF ts.t = "moment" THEN Ref(1) ELSE ts,
                        !.format = f, !.showRelativeDates = rel,
                        !.timezone = zone, !.now = now]
    /\ output = NoOutput
    /\ store = input.heap

CallFormatDate ==
    /\ output.formatDate = NotCalled
    /\ LET call == formatDate(store, input.timestamp, input.format,
                              input.showRelativeDates, input.timezone, input.now)
       IN  /\ store' = call.store
           /\ output' = [output EXCEPT !.formatDate = call.result]
    /\ UNCHANGED input

NextFormat == CallFormatDate

SpecFormat == InitFormat /\ [][NextFormat]_vars

\* the date passed to formatDate is a valid date
ValidTimestamp == input.timestamp.t = "ref" /\ input.heap[1].valid

\* C15: formatDate returns null, and does not throw, when the value is
\* null, undefined or an invalid date, whatever the format, showRelativeDates
\* and timezone; for a valid date it never returns null.
C15_NullForInvalid ==
    output.formatDate # NotCalled =>
        /\ output.formatDate.t # "throw"
        /\ (output.formatDate = Null) = ~ValidTimestamp

\* an invalid date formatted with a format, relative dates and a timezone
C15_Witness ==
    /\ output.formatDate = Null
    /\ input.timestamp = Ref(1)
    /\ ~input.heap[1].valid
    /\ input.format = Str("YYYY-MM-DD")
    /\ input.showRelativeDates
    /\ input.timezone = Str("Etc/GMT-12")

\* the calendar day (year, month, day of the month) of a date
CalendarDay(mom) == <<mom.year, mom.month, mom.date>>

\* what formatDate gives for the same arguments without showRelativeDates
WithoutRelativeDates ==
    formatDate(input.heap, input.timestamp, input.format, FALSE,
               input.timezone, input.now).result

\* C16: with showRelativeDates and a valid date, formatDate returns
\* "Yesterday", "Today" or "Tomorrow" exactly when the date falls on the
\* calendar day (same year, month and day) before, of or after the current
\* day; otherwise it returns no label and formats as without showRelativeDates.
C16_RelativeDates ==
    (output.formatDate # NotCalled /\ ValidTimestamp /\ input.showRelativeDates) =>
        LET given == CalendarDay(input.heap[1])
        IN  output.formatDate =
               IF given = CalendarDay(addDay(input.now, -1)) THEN Str("Yesterday")
               ELSE IF given = CalendarDay(input.now) THEN Str("Today")
               ELSE IF given = CalendarDay(addDay(input.now, 1)) THEN Str("Tomorrow")
               ELSE WithoutRelativeDates

\* formatDate(2023-03-01, undefined, true) on 2024-03-01 gives "Today"
C16_FailingInput ==
    /\ input.showRelativeDates
    /\ input.now = Moment(2024, 2, 1, <<23, 59, 59>>)
    /\ input.heap = <<Moment(2023, 2, 1, <<0, 0, 0>>)>>
    /\ output.formatDate = Str("Today")

\* the zone the date is formatted in, and the date and the current time as
\* read there
FormatOffset == IF input.timezone = Str("Etc/GMT-12") THEN 12 ELSE 0
DateThere == utcOffset(input.heap[1], FormatOffset)
NowThere == utcOffset(input.now, FormatOffset)

\* C17: when no label is returned, formatDate uses the explicitly supplied
\* format if there is one; otherwise the time-only format for a date on the
\* current day, the month/day/time format for a date in the current year but
\* not on the current day, and the full month/day/year/time format for a
\* date in another year.
C17_FormatChoice ==
    (output.formatDate # NotCalled /\ output.formatDate.t = "formatted") =>
        /\ output.formatDate.v.moment = DateThere
        /\ output.formatDate.v.format =
              IF input.format \notin {Null, Undefined} THEN input.format.v
              ELSE IF CalendarDay(DateThere) = CalendarDay(NowThere)
                   THEN DateFormats.OrdinalTimeMeridian.v
                   ELSE IF DateThere.year = NowThere.year
                        THEN DateFormats.OrdinalMonthDayTimeMeridian.v
                        ELSE DateFormats.OrdinalMonthDayYearTimeMeridian.v

\* a date of the current day formatted without a format
C17_Witness ==
    /\ output.formatDate.t = "formatted"
    /\ input.format = Undefined
    /\ input.timezone = Str("Etc/GMT-12")
    /\ CalendarDay(DateThere) = CalendarDay(NowThere)
    /\ CalendarDay(input.heap[1]) # CalendarDay(input.now)
    /\ output.formatDate.v.format = DateFormats.OrdinalTimeMeridian.v

\* C27: formatDate does not modify the value it is given: a date object
\* passed to it, with or without a timezone, is the same instant in the same
\* timezone after the call as before it.
C27_ValueUnchanged ==
    (output.formatDate # NotCalled /\ input.timestamp.t = "ref") =>
        store[input.timestamp.v] = input.heap[input.timestamp.v]

\* formatDate(2023-12-30T23:59:59, undefined, false, "Etc/GMT-12") leaves
\* the object in the zone Etc/GMT-12, where it reads 2023-12-31T11:59:59
C27_FailingInput ==
    /\ output.formatDate # NotCalled
    /\ input.timezone = Str("Etc/GMT-12")
    /\ input.heap = <<Moment(2023, 11, 30, <<23, 59, 59>>)>>
    /\ store = <<[Moment(2023, 11, 31, <<11, 59, 59>>) EXCEPT !.offset = 12]>>

(***************************************************************************)
(* DateUtils.parseDate.  A text is a string whose value is its sequence of *)
(* characters.  Which texts the date library can read under which format   *)
(* is not fixed here: input.parses says, for each format and for the       *)
(* default parse, whether the parse of the text is a valid date.           *)
(* output.parsed lists the parses that were made, in order.                *)
(***************************************************************************)
MaxTextLen == 10

\* StringUtils.stringIsEmpty
stringIsEmpty(value) == isNullOrUndefined(value) \/ Len(value.v) = 0

\* val.substring(start, end), 0 <= end <= val.length
substring(val, start, end) ==
    SubSeq(val, (IF start < 0 THEN 0 ELSE start) + 1, end)

\* str.indexOf(ch), counted from 0, -1 when ch is not in str
stringIndexOf(str, ch) ==
    IF \E i \in 1..Len(str) : str[i] = ch
    THEN (CHOOSE i \in 1..Len(str) : str[i] = ch /\ \A j \in 1..(i - 1) : str[j] # ch) - 1
    ELSE -1

shouldParseOrdinalMonthDayTwoDigitYear(val) ==
    /\ Len(val) >= 6
    /\ Len(val) <= 8
    /\ stringIndexOf(substring(val, Len(val) - 4, Len(val)), "/") > 0

\* the length alone decides
shouldParseOrdinalMonthDayFullYear_lengthOnly(val) ==
    /\ Len(val) >= 8
    /\ Len(val) <= 10

shouldParseOrdinalMonthDayFullYear(val) ==
    /\ Len(val) >= 8
    /\ Len(val) <= 10
    /\ stringIndexOf(substring(val, Len(val) - 4, Len(val)), "/") < 0

\* the formats in order of preference
commonDateFormats ==
    <<"OrdinalMonthDayTwoDigitYear", "OrdinalMonthDayFullYear",
      "ISODateTimeOffset", "DateTimeOffset">>

\* every format is tried on every text
shouldParse_always(format, val) == TRUE

\* the shouldParse of the entry of commonDateFormats with this format
shouldParse(format, val) ==
    CASE format = "OrdinalMonthDayTwoDigitYear" -> shouldParseOrdinalMonthDayTwoDigitYear(val)
      [] format = "OrdinalMonthDayFullYear" -> shouldParseOrdinalMonthDayFullYear(val)
      [] OTHER -> TRUE

\* Moment(value, format), and Moment(value) for the format "default"
Parse(parses, value, format) ==
    [t |-> "moment", valid |-> parses[format], value |-> value.v, format |-> format]

RECURSIVE parseDateFrom(_, _, _, _)
\* the loop over commonDateFormats from entry i on, then the last parse
parseDateFrom(parses, value, i, parsed) ==
    IF i > Len(commonDateFormats)
    THEN [result |-> Parse(parses, value, "default"), parsed |-> Append(parsed, "default")]
    ELSE IF ~shouldParse(commonDateFormats[i], value.v)
    THEN parseDateFrom(parses, value, i + 1, parsed)
    ELSE IF Parse(parses, value, commonDateFormats[i]).valid
    THEN [result |-> Parse(parses, value, commonDateFormats[i]),
          parsed |-> Append(parsed, commonDateFormats[i])]
    ELSE parseDateFrom(parses, value, i + 1, Append(parsed, commonDateFormats[i]))

parseDate(parses, value) ==
    IF stringIsEmpty(value)
    THEN [result |-> InvalidMoment, parsed |-> <<>>]
    ELSE parseDateFrom(parses, value, 1, <<>>)

Chars == {"1", "/"}
Texts == UNION {[1..n -> Chars] : n \in 0..MaxTextLen}
ParseFormats == Range(commonDateFormats) \cup {"default"}

InitParse ==
    /\ \E text \in {Str(tx) : tx \in Texts} \cup {Null, Undefined} :
          \E parses \in [ParseFormats -> BOOLEAN] :
             input = [NoInput EXCEPT !.value = text, !.parses = parses]
    /\ output = NoOutput
    /\ store = <<>>

CallParseDate ==
    /\ output.parseDate = NotCalled
    /\ LET call == parseDate(input.parses, input.value)
       IN  output' = [output EXCEPT !.parseDate = call.result, !.parsed = call.parsed]
    /\ UNCHANGED <<input, store>>

NextParse == CallParseDate

SpecParse == InitParse /\ [][NextParse]_vars

\* the places in the fixed order of the formats whose shape heuristic
\* accepts the text and under which the text parses to a valid date
ValidHypotheses ==
    {i \in 1..4 :
        /\ i = 1 => shouldParseOrdinalMonthDayTwoDigitYear(input.value.v)
        /\ i = 2 => shouldParseOrdinalMonthDayFullYear(input.value.v)
        /\ input.parses[commonDateFormats[i]]}

\* C14: parseDate never throws; for an empty text it returns an invalid
\* date without any parse; for any other text it returns the parse under
\* the first of the formats two-digit-year M/D/Y, four-digit-year M/D/Y, ISO
\* date-time-offset, date-time-offset whose shape heuristic accepts the
\* text and whose parse is valid, and the default parse, valid or not, when
\* there is no such format.
C14_ParseDate ==
    output.parseDate # NotCalled =>
        /\ output.parseDate.t = "moment"
        /\ IF input.value \in {Null, Undefined, Str(<<>>)}
           THEN ~output.parseDate.valid /\ output.parsed = <<>>
           ELSE IF ValidHypotheses # {}
           THEN LET first == CHOOSE i \in ValidHypotheses : \A j \in ValidHypotheses : i <= j
                IN  /\ output.parseDate.valid
                    /\ output.parseDate.format = commonDateFormats[first]
                    /\ output.parseDate.value = input.value.v
           ELSE /\ output.parseDate.format = "default"
                /\ output.parseDate.value = input.value.v
                /\ output.parseDate.valid = input.parses["default"]

\* "1/1/1111" reads as a date under the two-digit-year format too, which
\* its shape rules out: the four-digit-year parse is returned
C14_Witness ==
    /\ input.value = Str(<<"1", "/", "1", "/", "1", "1", "1", "1">>)
    /\ input.parses["OrdinalMonthDayTwoDigitYear"]
    /\ input.parses["OrdinalMonthDayFullYear"]
    /\ output.parseDate.t = "moment"
    /\ output.parseDate.format = "OrdinalMonthDayFullYear"
    /\ output.parsed = <<"OrdinalMonthDayFullYear">>

\* val is m digits, "/", d digits, "/", y digits
IsShape(val, m, d, y) ==
    /\ Len(val) = m + d + y + 2
    /\ \A i \in 1..Len(val) : (val[i] = "/") = (i \in {m + 1, m + d + 2})

\* the formats parseDate made a parse under
Tried == Range(output.parsed)

\* C26: no text is accepted by both the two-digit-year and the
\* four-digit-year heuristic of parseDate; a digit string M/D/YY, MM/D/YY,
\* M/DD/YY or MM/DD/YY is accepted by the two-digit-year heuristic only, and
\* a digit string M/D/YYYY, MM/D/YYYY, M/DD/YYYY or MM/DD/YYYY by the
\* four-digit-year heuristic only.
C26_Exclusive ==
    (output.parseDate # NotCalled /\ input.value.t = "string" /\ Len(input.value.v) > 0) =>
        LET val == input.value.v
            twoDigit == shouldParseOrdinalMonthDayTwoDigitYear(val)
            fullYear == shouldParseOrdinalMonthDayFullYear(val)
        IN  /\ ~(twoDigit /\ fullYear)
            /\ ~({"OrdinalMonthDayTwoDigitYear", "OrdinalMonthDayFullYear"} \subseteq Tried)
            /\ \A m \in 1..2, d \in 1..2 :
                  /\ IsShape(val, m, d, 2) =>
                        /\ twoDigit /\ ~fullYear
                        /\ output.parsed[1] = "OrdinalMonthDayTwoDigitYear"
                  /\ IsShape(val, m, d, 4) =>
                        /\ fullYear /\ ~twoDigit
                        /\ output.parsed[1] = "OrdinalMonthDayFullYear"

\* "11/11/11" has a length both heuristics allow; no parse is made under the
\* four-digit-year format after the two-digit-year parse is invalid
C26_Witness ==
    /\ input.value = Str(<<"1", "1", "/", "1", "1", "/", "1", "1">>)
    /\ ~input.parses["OrdinalMonthDayTwoDigitYear"]
    /\ input.parses["OrdinalMonthDayFullYear"]
    /\ Len(output.parsed) >= 2
    /\ output.parsed[1] = "OrdinalMonthDayTwoDigitYear"
    /\ output.parsed[2] = "ISODateTimeOffset"

(***************************************************************************)
(* CoreUtils.arrayIncludes                                                 *)
(***************************************************************************)
\* !!value
ToBoolean(value) ==
    value \notin {Undefined, Null, NaN, Num(0), Str(""), Bool(FALSE)}

\* a == b for primitive values
LooseEquals(a, b) ==
    IF a.t = b.t THEN StrictEquals(a, b)
    ELSE IF isNullOrUndefined(a) \/ isNullOrUndefined(b)
         THEN isNullOrUndefined(a) /\ isNullOrUndefined(b)
         ELSE ToNumber(a) # NaN /\ ToNumber(a) = ToNumber(b)

\* against.find(predicate) with e === check or e == check as predicate
find(against, check, strict) ==
    LET matches(e) == IF strict THEN StrictEquals(e, check) ELSE LooseEquals(e, check)
    IN  IF \E i \in 1..Len(against.v) : matches(against.v[i])
        THEN against.v[CHOOSE i \in 1..Len(against.v) :
                          /\ matches(against.v[i])
                          /\ \A j \in 1..(i - 1) : ~matches(against.v[j])]
        ELSE Undefined

\* against.find on a value that is not an array throws, which is caught
arrayIncludes(against, check, strict) ==
    IF against.t # "Array" THEN Bool(FALSE)
    ELSE Bool(ToBoolean(find(against, check, strict = Undefined \/ ToBoolean(strict))))

Primitives ==
    {Undefined, Null, NaN, Num(0), Num(1), Str(""), Str("1"), Bool(FALSE), Bool(TRUE)}

InitIncludes ==
    /\ \E against \in {Arr(s) : s \in SeqsUpTo(Primitives, MaxLen)}
                        \cup {Null, Undefined, Obj(<<>>), Str("1")} :
          \E check \in Primitives, strict \in {Undefined, Bool(TRUE), Bool(FALSE)} :
             input = [NoInput EXCEPT !.against = against, !.check = check,
                                     !.strict = strict]
    /\ output = NoOutput
    /\ store = <<>>

CallArrayIncludes ==
    /\ output.arrayIncludes = NotCalled
    /\ output' = [output EXCEPT !.arrayIncludes =
                    arrayIncludes(input.against, input.check, input.strict)]
    /\ UNCHANGED <<input, store>>

NextIncludes == CallArrayIncludes

SpecIncludes == InitIncludes /\ [][NextIncludes]_vars

\* some element of against equals check, strictly or loosely
SomeElementEquals ==
    \E i \in 1..Len(input.against.v) :
        IF input.strict = Bool(FALSE)
        THEN LooseEquals(input.against.v[i], input.check)
        ELSE StrictEquals(input.against.v[i], input.check)

\* C23: arrayIncludes(against, check, strict) is true exactly when some
\* element of against equals check, strictly when strict is true or
\* omitted and loosely when it is false, for every check, 0, "", false and
\* null included; it is false, without a throw, when against is null or
\* not an array.
C23_ArrayIncludes ==
    output.arrayIncludes # NotCalled =>
        output.arrayIncludes =
            IF input.against.t = "Array" THEN Bool(SomeElementEquals) ELSE Bool(FALSE)

\* arrayIncludes([0], 0) is false
C23_FailingInput ==
    /\ input.against = Arr(<<Num(0)>>)
    /\ input.check = Num(0)
    /\ input.strict = Undefined
    /\ output.arrayIncludes = Bool(FALSE)

(***************************************************************************)
(* CoreUtils.closestMultiple, on whole numbers n and x >= 0                *)
(***************************************************************************)
MaxN == 24
MaxX == 10

closestMultiple(n, x) ==
    IF n = 0 \/ n < 0 THEN Num(0)
    ELSE IF x > n THEN Num(x)
    \* n % 0 is NaN
    ELSE IF x = 0 THEN NaN
    ELSE LET n1 == n + (x \div 2)
         IN  Num(n1 - (n1 % x))

InitMultiple ==
    /\ \E n \in (-2)..MaxN, x \in 0..MaxX : input = [NoInput EXCEPT !.n = n, !.x = x]
    /\ output = NoOutput
    /\ store = <<>>

CallClosestMultiple ==
    /\ output.closestMultiple = NotCalled
    /\ output' = [output EXCEPT !.closestMultiple = closestMultiple(input.n, input.x)]
    /\ UNCHANGED <<input, store>>

NextMultiple == CallClosestMultiple

SpecMultiple == InitMultiple /\ [][NextMultiple]_vars

\* the distance between two whole numbers
Distance(a, b) == IF a >= b THEN a - b ELSE b - a

\* C24: for whole numbers n > 0 and x > 0, closestMultiple(n, x) is a
\* multiple of x whose distance to n is the least among the multiples of
\* x, the smaller one when n is equally far from two of them; for n <= 0
\* it is 0.
C24_ClosestMultiple ==
    output.closestMultiple # NotCalled =>
        /\ input.n <= 0 => output.closestMultiple = Num(0)
        /\ (input.n > 0 /\ input.x > 0) =>
              /\ output.closestMultiple.t = "number"
              /\ LET r == output.closestMultiple.v
                 IN  /\ r % input.x = 0
                     /\ \A k \in 0..(MaxN + MaxX) :
                           LET m == k * input.x
                           IN  \/ Distance(m, input.n) > Distance(r, input.n)
                               \/ (Distance(m, input.n) = Distance(r, input.n) /\ r <= m)

\* closestMultiple(15, 10) is 20, not 10
C24_FailingInput ==
    /\ input.n = 15
    /\ input.x = 10
    /\ output.closestMultiple = Num(20)

(***************************************************************************)
(* CoreUtils.coalesce                                                      *)
(***************************************************************************)
MaxValues == 3

RECURSIVE coalesceLoop(_)
\* do { value = values.shift(); } while (values.length > 0 && isNullOrUndefined(value))
coalesceLoop(values) ==
    LET value == Head(values)
        rest == Tail(values)
    IN  IF Len(rest) > 0 /\ isNullOrUndefined(value) THEN coalesceLoop(rest) ELSE value

\* falsy values are passed over as well
coalesce_truthy(values) ==
    IF \E i \in 1..Len(values) : ToBoolean(values[i])
    THEN values[CHOOSE i \in 1..Len(values) :
                   ToBoolean(values[i]) /\ \A j \in 1..(i - 1) : ~ToBoolean(values[j])]
    ELSE Null

\* values is the rest-parameter array
coalesce(values) ==
    IF isEmpty(<<Arr(values)>>) THEN Null ELSE coalesceLoop(values)

CoalesceArgs == {Undefined, Null, Num(0), Num(1), Bool(FALSE), Str("")}

InitCoalesce ==
    /\ \E n \in 0..MaxValues :
          \E values \in [1..n -> CoalesceArgs] : input = [NoInput EXCEPT !.values = values]
    /\ output = NoOutput
    /\ store = <<>>

CallCoalesce ==
    /\ output.coalesce = NotCalled
    /\ output' = [output EXCEPT !.coalesce = coalesce(input.values)]
    /\ UNCHANGED <<input, store>>

NextCoalesce == CallCoalesce

SpecCoalesce == InitCoalesce /\ [][NextCoalesce]_vars

\* the places of the arguments that are neither null nor undefined
Present == {i \in 1..Len(input.values) : input.values[i] \notin {Null, Undefined}}

\* C25: coalesce(v1, ..., vn) returns the first argument that is neither
\* null nor undefined, 0, false and "" counting as present; without
\* arguments, or when all are null or undefined, it returns null or
\* undefined.
C25_Coalesce ==
    output.coalesce # NotCalled =>
        IF Present = {}
        THEN output.coalesce \in {Null, Undefined}
        ELSE output.coalesce =
                input.values[CHOOSE i \in Present : \A j \in Present : i <= j]

\* coalesce(undefined, false, 1) is false
C25_Witness ==
    /\ input.values = <<Undefined, Bool(FALSE), Num(1)>>
    /\ output.coalesce = Bool(FALSE)

(***************************************************************************)
(* CoreUtils.subtractWeekdays.  input.date is the address of the date      *)
(* object given; the clone the function works on is a new object of the    *)
(* store.                                                                  *)
(***************************************************************************)
MaxDays == 7

RECURSIVE daysBeforeMonth(_, _)
\* the days of the year before the first of the month
daysBeforeMonth(year, month) ==
    IF month = 0 THEN 0
    ELSE daysBeforeMonth(year, month - 1) + daysInMonth(year, month - 1)

\* the days from January 1 of the year 1, a Monday, up to the date, counted from 1
DayNumber(mom) ==
    LET y == mom.year - 1
    IN  365 * y + (y \div 4) - (y \div 100) + (y \div 400)
        + daysBeforeMonth(mom.year, mom.month) + mom.date

\* moment.isoWeekday(): 1 is Monday, 7 is Sunday
isoWeekday(mom) == ((DayNumber(mom) - 1) % 7) + 1

\* date.subtract(1, "days"), which does nothing to an invalid date
subtractDay(mom) == IF mom.valid THEN addDay(mom, -1) ELSE mom

RECURSIVE subtractWeekdaysLoop_everyDay(_, _)
\* Saturdays and Sundays are counted too
subtractWeekdaysLoop_everyDay(date, days) ==
    IF days > 0
    THEN subtractWeekdaysLoop_everyDay(subtractDay(date), days - 1)
    ELSE date

RECURSIVE subtractWeekdaysLoop(_, _)
\* while (days > 0): the isoWeekday of an invalid date is NaN, which is
\* neither 6 nor 7
subtractWeekdaysLoop(date, days) ==
    IF days > 0
    THEN LET before == subtractDay(date)
         IN  IF ~before.valid \/ (isoWeekday(before) # 6 /\ isoWeekday(before) # 7)
             THEN subtractWeekdaysLoop(before, days - 1)
             ELSE subtractWeekdaysLoop(before, days)
    ELSE date

\* the store after subtractWeekdays(date, days) and the object it returns
subtractWeekdays(heap, date, days) ==
    LET clone == heap[date.v]
    IN  [store |-> Append(heap, subtractWeekdaysLoop(clone, days)),
         result |-> Ref(Len(heap) + 1)]

InitWeekdays ==
    /\ \E mom \in ValidMoments \cup {InvalidMoment}, days \in 0..MaxDays :
          input = [NoInput EXCEPT !.heap = <<mom>>, !.date = Ref(1), !.days = days]
    /\ output = NoOutput
    /\ store = input.heap

CallSubtractWeekdays ==
    /\ output.subtractWeekdays = NotCalled
    /\ LET call == subtractWeekdays(store, input.date, input.days)
       IN  /\ store' = call.store
           /\ output' = [output EXCEPT !.subtractWeekdays = call.result]
    /\ UNCHANGED input

NextWeekdays == CallSubtractWeekdays

SpecWeekdays == InitWeekdays /\ [][NextWeekdays]_vars

\* the number of days Monday to Friday among the days numbered a .. b - 1
WeekdaysBetween(a, b) == Cardinality({k \in a..(b - 1) : ((k - 1) % 7) + 1 <= 5})

\* C28: subtractWeekdays(date, days), days >= 0, ends, leaves the date
\* given unchanged and returns the latest date not after it with exactly
\* days weekdays (Monday to Friday) from the result (inclusive) to the
\* given date (exclusive); for days > 0 the result is no Saturday or
\* Sunday, for days = 0 it is the given date.
C28_SubtractWeekdays ==
    output.subtractWeekdays # NotCalled =>
        LET given == input.heap[1]
            result == store[output.subtractWeekdays.v]
        IN  /\ store[1] = given
            /\ output.subtractWeekdays # input.date
            /\ result.valid = given.valid
            /\ given.valid =>
                  /\ <<result.hour, result.minute, result.second>> =
                        <<given.hour, given.minute, given.second>>
                  /\ DayNumber(result) <= DayNumber(given)
                  /\ WeekdaysBetween(DayNumber(result), DayNumber(given)) = input.days
                  /\ \A k \in (DayNumber(result) + 1)..DayNumber(given) :
                        WeekdaysBetween(k, DayNumber(given)) # input.days
                  /\ input.days > 0 => isoWeekday(result) \notin {6, 7}
                  /\ input.days = 0 => result = given

\* one weekday before Monday 2024-01-29 is Friday 2024-01-26
C28_Witness ==
    /\ output.subtractWeekdays = Ref(2)
    /\ input.heap = <<Moment(2024, 0, 29, <<0, 0, 0>>)>>
    /\ input.days = 1
    /\ store[2] = Moment(2024, 0, 26, <<0, 0, 0>>)
====
